---- MODULE Spec2Model ----
(***************************************************************************)
(* Adlytics: the rate-limited, retrying HTTP client                        *)
(* (ingestion_service/base_client.py) shared by cooperative asyncio tasks, *)
(* and the notification dispatcher with its three senders                  *)
(* (notifications_service).                                                *)
(*                                                                         *)
(* Library behaviour the source relies on, as used below:                  *)
(*  - aiohttp: ClientSession.request on a closed session raises            *)
(*    RuntimeError("Session is closed"); raise_for_status raises           *)
(*    ClientResponseError, a subclass of ClientError; resp.json() raises   *)
(*    ContentTypeError on a non-JSON content type and json.JSONDecodeError *)
(*    (a ValueError) on a body that does not parse; reading the body can   *)
(*    fail with ClientPayloadError.                                        *)
(*  - aiolimiter: acquire returns without suspending when the bucket has   *)
(*    capacity and suspends the caller otherwise; the bucket leaks with    *)
(*    time.                                                                *)
(*  - backoff: a callable max_tries is called with no arguments; when that *)
(*    call raises TypeError the callable itself is kept as the value, and  *)
(*    "tries == max_tries_value" is then never true.                       *)
(***************************************************************************)
EXTENDS Integers, Sequences, FiniteSets, TLC

\* ------------------------------------------------------------------ bounds
NumTasks == 2
MaxSessions == 3
\* The limiter's max_rate, chosen small.
max_rate == 1

\* ------------------------------------------------------- program constants
\* __init__'s default for max_retries.
max_retries == 3
\* max_tries=lambda self: ...: the lambda has one required parameter.
MaxTriesLambdaArity == 1

Tasks == 1..NumTasks
Methods == {"GET", "POST"}
StatusCodes == {200, 400, 503}
TransportErrors == {"ClientConnectionError", "TimeoutError"}
\* (aiohttp.ClientError, asyncio.TimeoutError): the classes the decorator names,
\* with the subclasses of ClientError that _request can raise.
BackoffExceptions ==
    {"ClientConnectionError", "ClientPayloadError", "ClientResponseError", "TimeoutError"}

Responses ==
    [status : StatusCodes, json_ctype : BOOLEAN, json_valid : BOOLEAN, readable : BOOLEAN]

NoResult == [kind |-> "none", value |-> "none", status |-> 0]
Return(v) == [kind |-> "return", value |-> v, status |-> 0]
Raise(e, s) == [kind |-> "raise", value |-> e, status |-> s]

\* ------------------------------------------------------------ notifications

\* dict.get of a missing key.
None == "None"
\* Python's "not v" for the values a field takes here.
Falsy(v) == v = None \/ v = ""

Messages ==
    [to : {None, "", "42"},
     content : {None, "", "hi"},
     channel : {None, "telegram", "email"},
     type : {None, "photo", "html", "sticker"}]

\* What the transport does once called: it succeeds (for the SMS gateway, with a
\* status), raises the library's own error class, or raises something else.
TelegramOutcomes == {[exc |-> e, status |-> 0] : e \in {"none", "TelegramError", "OtherError"}}
EmailOutcomes == {[exc |-> e, status |-> 0] : e \in {"none", "SMTPException", "OtherError"}}
SmsOutcomes ==
    {[exc |-> "none", status |-> c] : c \in {200, 201, 204, 500}}
        \cup {[exc |-> e, status |-> 0] : e \in {"HTTPError", "OtherError"}}

\* A sender's return: its boolean, or an exception leaving it; transport counts the
\* transport operations started (bot API calls, SMTP connections, gateway POSTs).
Returned(b, ops) == [raised |-> FALSE, ret |-> b, transport |-> ops]
Raised(ops) == [raised |-> TRUE, ret |-> FALSE, transport |-> ops]

\* message.get("type", default)
MsgType(message, default) == IF message.type = None THEN default ELSE message.type

\* TelegramSender._send_methods
TelegramSendMethods == {"text", "photo", "document"}

\* TelegramSender._send
TelegramSenderSend(message, outcome) ==
    IF Falsy(message.to) \/ Falsy(message.content) THEN Returned(FALSE, 0)
    ELSE IF MsgType(message, "text") \notin TelegramSendMethods THEN Returned(FALSE, 0)
    ELSE IF outcome.exc = "none" THEN Returned(TRUE, 1)
    ELSE IF outcome.exc = "TelegramError" THEN Returned(FALSE, 1)
    ELSE Raised(1)

\* A variant that validates the recipient alone.
EmailSenderSendChecksToOnly(message, outcome) ==
    IF Falsy(message.to) THEN Returned(FALSE, 0)
    ELSE IF outcome.exc = "none" THEN Returned(TRUE, 1)
    ELSE IF outcome.exc = "SMTPException" THEN Returned(FALSE, 1)
    ELSE Raised(1)

\* EmailSender._send; the type only picks the MIME subtype of the body.
EmailSenderSend(message, outcome) ==
    IF Falsy(message.to) \/ Falsy(message.content) THEN Returned(FALSE, 0)
    ELSE IF outcome.exc = "none" THEN Returned(TRUE, 1)
    ELSE IF outcome.exc = "SMTPException" THEN Returned(FALSE, 1)
    ELSE Raised(1)

\* SmsSender._send
SmsSenderSend(data, outcome) ==
    IF Falsy(data.to) \/ Falsy(data.content) THEN Returned(FALSE, 0)
    ELSE IF outcome.exc # "none" THEN Returned(FALSE, 1)
    ELSE Returned(outcome.status \in {200, 201}, 1)

\* NotificationDispatcher.senders
senders == [telegram |-> "TelegramSender"]

NoSender == [raised |-> FALSE, ret |-> FALSE, transport |-> 0]

\* What a dispatch did: the senders invoked, in order, the last one's own result,
\* and what send returned.
Dispatched(invoked, s, r) ==
    [raised |-> r.raised, ret |-> r.ret, transport |-> r.transport,
     invoked |-> invoked, sender |-> s]

\* A variant that reports every delivery that did not raise as a success.
NotificationDispatcherSendTruthy(message, outcome) ==
    IF message.channel \notin DOMAIN senders
    THEN Dispatched(<< >>, NoSender, Returned(FALSE, 0))
    ELSE LET r == TelegramSenderSend(message, outcome)
         IN  Dispatched(<<senders[message.channel]>>, r,
                        IF r.raised THEN r ELSE Returned(TRUE, r.transport))

\* NotificationDispatcher.send
NotificationDispatcherSend(message, outcome) ==
    IF message.channel \notin DOMAIN senders
    THEN Dispatched(<< >>, NoSender, Returned(FALSE, 0))
    ELSE LET r == TelegramSenderSend(message, outcome)
         IN  Dispatched(<<senders[message.channel]>>, r, r)

\* A sender called directly.
Direct(name, r) == Dispatched(<<name>>, r, r)

VARIABLES
    backoff_max_tries,  \* self.backoff_max_tries
    session,            \* self._session: 0 is None, n > 0 the n-th ClientSession object
    closed,             \* the ClientSession objects whose .closed is True
    created,            \* ClientSession objects constructed so far
    level,              \* the limiter's bucket level
    pc,                 \* each task's position
    tries,              \* backoff's attempt counter of the task's current call
    attempt,            \* how the task's latest attempt ended
    inScope,            \* the task is inside "async with client"
    exitExc,            \* the latest __aexit__ got an exception (exc_type is not None)
    nOp,                \* the notification entry point called last
    nMsg,               \* its message
    nOutcome,           \* what the transport did in that call
    nRes                \* what the call did and returned

clientVars ==
    <<backoff_max_tries, session, closed, created, level, pc, tries, attempt, inScope,
      exitExc>>

notifyVars == <<nOp, nMsg, nOutcome, nRes>>

vars == <<clientVars, notifyVars>>

\* The backoff_max_tries the client is constructed with.
BackoffArgs == {1}

\* BaseClient.__init__: backoff_max_tries or max_retries (0 stands for None too).
BackoffMaxTries(arg) == IF arg = 0 THEN max_retries ELSE arg

Init ==
    /\ backoff_max_tries \in {BackoffMaxTries(a) : a \in BackoffArgs}
    /\ session = 0
    /\ closed = {}
    /\ created = 0
    /\ level = 0
    /\ pc = [t \in Tasks |-> "idle"]
    /\ tries = [t \in Tasks |-> 0]
    /\ attempt = [t \in Tasks |-> NoResult]
    /\ inScope = [t \in Tasks |-> FALSE]
    /\ exitExc = FALSE
    /\ nOp = "none"
    /\ nMsg = [to |-> None, content |-> None, channel |-> None, type |-> None]
    /\ nOutcome = [exc |-> "none", status |-> 0]
    /\ nRes = Dispatched(<< >>, NoSender, NoSender)

\* ------------------------------------------------------------ the session

\* A variant that forgets the closed session.
NeedsNewSessionOnlyNone == session = 0

\* _ensure_session's condition.
NeedsNewSession == session = 0 \/ session \in closed

\* _ensure_session: a new ClientSession object when none is usable.
EnsureSession ==
    /\ NeedsNewSession => created < MaxSessions
    /\ session' = IF NeedsNewSession THEN created + 1 ELSE session
    /\ created' = IF NeedsNewSession THEN created + 1 ELSE created

\* A variant that closes only when the body did not raise.
CloseOnlyOnCleanExit(raised) == IF raised THEN closed ELSE closed \cup ({session} \ {0})

\* __aexit__: close the session if there is one and it is open; exc_type is not read.
ClosedAfterExit(raised) ==
    IF session # 0 /\ session \notin closed THEN closed \cup {session} ELSE closed

AEnter(t) ==
    /\ pc[t] = "idle"
    /\ ~inScope[t]
    /\ EnsureSession
    /\ inScope' = [inScope EXCEPT ![t] = TRUE]
    /\ UNCHANGED <<backoff_max_tries, closed, level, pc, tries, attempt, exitExc>>
    /\ UNCHANGED notifyVars

AExit(t, raised) ==
    /\ pc[t] = "idle"
    /\ inScope[t]
    /\ closed' = ClosedAfterExit(raised)
    /\ inScope' = [inScope EXCEPT ![t] = FALSE]
    /\ exitExc' = raised
    /\ UNCHANGED <<backoff_max_tries, session, created, level, pc, tries, attempt>>
    /\ UNCHANGED notifyVars

\* ---------------------------------------------------------- the retry layer

\* backoff's _maybe_call(max_tries): the lambda takes self and is called with nothing.
MaxTriesValue ==
    IF MaxTriesLambdaArity = 0
    THEN [isInt |-> TRUE, val |-> backoff_max_tries]
    ELSE [isInt |-> FALSE, val |-> 0]

\* backoff: max_tries_exceeded = (tries == max_tries_value)
MaxTriesExceeded(n) == MaxTriesValue.isInt /\ n = MaxTriesValue.val

\* The model follows a call for one attempt past its ceiling and no further (the
\* code has no such stop).
MaxAttempts == backoff_max_tries + 1

\* backoff.on_exception around _request: an exception of the named classes is
\* retried after a sleep unless the tries are used up; anything else ends the call,
\* and backoff's counter with it.
AfterAttempt(t, r, n) ==
    LET retry == r.kind = "raise" /\ r.value \in BackoffExceptions /\ ~MaxTriesExceeded(n)
    IN  /\ attempt' = [attempt EXCEPT ![t] = r]
        /\ pc' = [pc EXCEPT ![t] = IF retry THEN "backoff_sleep" ELSE "idle"]
        /\ tries' = [tries EXCEPT ![t] = IF retry THEN n ELSE 0]

\* self._session.request(...) entered, after _ensure_session has made the session
\* other than None: a closed session raises RuntimeError, which backoff lets through.
IssueRequest(t, sess, cl, n) ==
    IF sess \in cl
    THEN AfterAttempt(t, Raise("RuntimeError", 0), n)
    ELSE /\ pc' = [pc EXCEPT ![t] = "in_flight"]
         /\ attempt' = [attempt EXCEPT ![t] = NoResult]
         /\ tries' = [tries EXCEPT ![t] = n]

\* ------------------------------------------------------------- get / post

\* A variant that issues the request whether or not the bucket has capacity.
AttemptWithoutLimiter(t, n) ==
    /\ EnsureSession
    /\ level' = IF level < max_rate THEN level + 1 ELSE level
    /\ IssueRequest(t, session', closed, n)
    /\ UNCHANGED <<backoff_max_tries, closed, inScope, exitExc>>
    /\ UNCHANGED notifyVars

\* Attempt number n of _request, up to its first suspension: ensure the session,
\* then enter the limiter; with capacity the request is issued at once, without it
\* the task is suspended in acquire.
Attempt(t, n) ==
    /\ EnsureSession
    /\ IF level < max_rate
       THEN /\ level' = level + 1
            /\ IssueRequest(t, session', closed, n)
       ELSE /\ level' = level
            /\ pc' = [pc EXCEPT ![t] = "wait_limiter"]
            /\ attempt' = [attempt EXCEPT ![t] = NoResult]
            /\ tries' = [tries EXCEPT ![t] = n]
    /\ UNCHANGED <<backoff_max_tries, closed, inScope, exitExc>>
    /\ UNCHANGED notifyVars

\* get and post hand their method to _request, whose control flow does not read
\* it; the first attempt runs at once.
Call(t, m) ==
    /\ m \in Methods
    /\ pc[t] = "idle"
    /\ Attempt(t, 1)

Get(t) == Call(t, "GET")

Post(t) == Call(t, "POST")

\* backoff's sleep ends and the next attempt runs.
Retry(t) ==
    /\ pc[t] = "backoff_sleep"
    /\ tries[t] < MaxAttempts
    /\ Attempt(t, tries[t] + 1)

\* The suspended acquire resumes once the bucket has capacity; the request is then
\* issued on whatever self._session is now.
LimiterAcquire(t) ==
    /\ pc[t] = "wait_limiter"
    /\ level < max_rate
    /\ level' = level + 1
    /\ IssueRequest(t, session, closed, tries[t])
    /\ UNCHANGED <<backoff_max_tries, session, closed, created, inScope, exitExc>>
    /\ UNCHANGED notifyVars

\* The bucket leaks as time passes.
Leak ==
    /\ level > 0
    /\ level' = level - 1
    /\ UNCHANGED <<backoff_max_tries, session, closed, created, pc, tries, attempt,
                   inScope, exitExc>>
    /\ UNCHANGED notifyVars

\* The body of "async with ... as resp": the status check, then the decode.
ProcessResponse(r) ==
    IF r.status >= 400
    THEN IF ~r.readable
         THEN Raise("ClientPayloadError", 0)
         ELSE Raise("ClientResponseError", r.status)
    ELSE IF ~r.readable THEN Raise("ClientPayloadError", 0)
    ELSE IF ~r.json_ctype THEN Return("text")
    ELSE IF r.json_valid THEN Return("json")
    ELSE Raise("JSONDecodeError", 0)

Respond(t, r) ==
    /\ pc[t] = "in_flight"
    /\ AfterAttempt(t, ProcessResponse(r), tries[t])
    /\ UNCHANGED <<backoff_max_tries, session, closed, created, level, inScope, exitExc>>
    /\ UNCHANGED notifyVars

TransportFail(t, e) ==
    /\ pc[t] = "in_flight"
    /\ AfterAttempt(t, Raise(e, 0), tries[t])
    /\ UNCHANGED <<backoff_max_tries, session, closed, created, level, inScope, exitExc>>
    /\ UNCHANGED notifyVars

Next ==
    \/ \E t \in Tasks : AEnter(t)
    \/ \E t \in Tasks : \E raised \in BOOLEAN : AExit(t, raised)
    \/ \E t \in Tasks : Get(t)
    \/ \E t \in Tasks : Post(t)
    \/ \E t \in Tasks : Retry(t)
    \/ \E t \in Tasks : LimiterAcquire(t)
    \/ Leak
    \/ \E t \in Tasks : \E r \in Responses : Respond(t, r)
    \/ \E t \in Tasks : \E e \in TransportErrors : TransportFail(t, e)

Spec == Init /\ [][Next]_vars

\* ------------------------------------------------- notifications: the calls

DispatcherSend(message, outcome) ==
    /\ nOp' = "dispatcher"
    /\ nMsg' = message
    /\ nOutcome' = outcome
    /\ nRes' = NotificationDispatcherSend(message, outcome)
    /\ UNCHANGED clientVars

TelegramSend(message, outcome) ==
    /\ nOp' = "telegram"
    /\ nMsg' = message
    /\ nOutcome' = outcome
    /\ nRes' = Direct("TelegramSender", TelegramSenderSend(message, outcome))
    /\ UNCHANGED clientVars

EmailSend(message, outcome) ==
    /\ nOp' = "email"
    /\ nMsg' = message
    /\ nOutcome' = outcome
    /\ nRes' = Direct("EmailSender", EmailSenderSend(message, outcome))
    /\ UNCHANGED clientVars

SmsSend(message, outcome) ==
    /\ nOp' = "sms"
    /\ nMsg' = message
    /\ nOutcome' = outcome
    /\ nRes' = Direct("SmsSender", SmsSenderSend(message, outcome))
    /\ UNCHANGED clientVars

NotifyNext ==
    \/ \E m \in Messages : \E o \in TelegramOutcomes : DispatcherSend(m, o)
    \/ \E m \in Messages : \E o \in TelegramOutcomes : TelegramSend(m, o)
    \/ \E m \in Messages : \E o \in EmailOutcomes : EmailSend(m, o)
    \/ \E m \in Messages : \E o \in SmsOutcomes : SmsSend(m, o)

NotifySpec == Init /\ [][NotifyNext]_vars

\* ------------------------------------------------------------------ claims

\* A step that runs _ensure_session: __aenter__, and the start of every attempt.
Ensures(t) == AEnter(t) \/ Get(t) \/ Post(t) \/ Retry(t)

\* The step in which task t enters self._session.request(...): the attempt's own
\* step when the limiter has capacity, the resumed acquire otherwise.
Issues(t) == ((Get(t) \/ Post(t) \/ Retry(t)) /\ level < max_rate) \/ LimiterAcquire(t)

\* C1: whenever a task issues the HTTP call, self._session exists and is not
\* closed, for every interleaving of the tasks sharing the client.
C1_IssuedOnOpenSession ==
    [][\A t \in Tasks : Issues(t) => (session' # 0 /\ session' \notin closed')]_vars

\* C2: _ensure_session (run by __aenter__ and at the start of every attempt) on an
\* absent or closed session leaves a new, open session, another object than every
\* earlier one; on an open session it keeps that session, still open.
C2_EnsureSession ==
    [][\A t \in Tasks :
        Ensures(t) =>
            IF session = 0 \/ session \in closed
            THEN /\ session' # 0
                 /\ session' # session
                 /\ session' \notin 1..created
                 /\ session' \notin closed'
            ELSE /\ session' = session
                 /\ session' \notin closed']_vars

\* C2's case: inside a scope, with an earlier session closed and replaced by a new
\* open one, a request is in flight on the session its attempt found open.
C2_Witness ==
    \E t \in Tasks :
        /\ inScope[t]
        /\ pc[t] = "in_flight"
        /\ created >= 2
        /\ session = created
        /\ session \notin closed
        /\ (session - 1) \in closed

\* C3: __aexit__ of an entered scope leaves the client's session closed, whether or
\* not the body raised, and a closed session never reopens.
C3_ExitClosesSession ==
    [][/\ \A t \in Tasks : \A raised \in BOOLEAN :
            AExit(t, raised) => (session' # 0 /\ session' \in closed')
       /\ closed \subseteq closed']_vars

\* C3's case: a task whose call raised has left its scope with the exception, and
\* the session is closed.
C3_Witness ==
    \E t \in Tasks :
        /\ ~inScope[t]
        /\ exitExc
        /\ pc[t] = "idle"
        /\ attempt[t].kind = "raise"
        /\ session # 0
        /\ session \in closed

\* C4: an attempt that ends with the HTTP error of a status >= 400 ends its call:
\* no retry follows it.
C4_HttpErrorIsTerminal ==
    \A t \in Tasks : attempt[t].value = "ClientResponseError" => pc[t] = "idle"

\* C5: a call makes at most backoff_max_tries attempts, and the attempt that
\* reaches the ceiling is not followed by a retry.
C5_AttemptsBounded ==
    \A t \in Tasks :
        /\ tries[t] <= backoff_max_tries
        /\ pc[t] = "backoff_sleep" => tries[t] < backoff_max_tries

\* C6: an attempt whose response has a status >= 400 ends by raising the HTTP
\* error that carries that status.
C6_ErrorStatusRaises ==
    [][\A t \in Tasks : \A r \in Responses :
        (Respond(t, r) /\ r.status >= 400) =>
            attempt'[t] = Raise("ClientResponseError", r.status)]_vars

\* C7: for a status < 400 whose body was read, the attempt returns the decoded
\* structure when the body is JSON, and the raw text for every other body (another
\* content type, or a body that does not parse).
C7_DecodeOrText ==
    [][\A t \in Tasks : \A r \in Responses :
        (Respond(t, r) /\ r.status < 400 /\ r.readable) =>
            attempt'[t] = IF r.json_ctype /\ r.json_valid
                          THEN Return("json")
                          ELSE Return("text")]_vars

\* C8: send returns False, without raising and without invoking a sender, for a
\* channel that is no key of the registry (a missing channel too); for a registered
\* channel it invokes that channel's sender once and returns what it returned.
C8_DispatcherRouting ==
    nOp = "dispatcher" =>
        IF nMsg.channel \notin {"telegram"}
        THEN /\ ~nRes.raised
             /\ nRes.ret = FALSE
             /\ nRes.invoked = << >>
             /\ nRes.transport = 0
        ELSE /\ nRes.invoked = <<"TelegramSender">>
             /\ ~nRes.sender.raised => (~nRes.raised /\ nRes.ret = nRes.sender.ret)

\* C8's case: a message for the registered channel was delivered by its sender,
\* whose True came back from send.
C8_Witness ==
    /\ nOp = "dispatcher"
    /\ nMsg.channel = "telegram"
    /\ nRes.invoked = <<"TelegramSender">>
    /\ ~nRes.sender.raised
    /\ nRes.sender.ret = TRUE
    /\ nRes.ret = TRUE

\* C9: no sender, and so no dispatch, lets an exception out, whatever the
\* transport does.
C9_SendersNeverRaise == nOp # "none" => ~nRes.raised

\* C10: a sender given a message whose to or content is missing or empty returns
\* False before any transport operation is started.
C10_ValidatedBeforeTransport ==
    (nOp \in {"telegram", "email", "sms"} /\ (Falsy(nMsg.to) \/ Falsy(nMsg.content))) =>
        (~nRes.raised /\ nRes.ret = FALSE /\ nRes.transport = 0)

\* C10's case: EmailSender._send({}) returned False with no SMTP connection.
C10_Witness ==
    /\ nOp = "email"
    /\ nMsg.to = None
    /\ nMsg.content = None
    /\ ~nRes.raised
    /\ nRes.ret = FALSE
    /\ nRes.transport = 0

\* A step that starts an attempt of _request: a call's first attempt, or a retry.
Starts(t) == Get(t) \/ Post(t) \/ Retry(t)

\* C11: within every attempt of _request, retries included, the steps come in the
\* order ensure session, acquire the limiter, issue the HTTP call, check the status.
\* An attempt starts by leaving a usable session and then either takes capacity
\* from the limiter and enters the HTTP call, or waits in acquire; a waiting attempt
\* leaves acquire only by taking capacity and entering the HTTP call, as the same
\* attempt; the HTTP call is entered in no other step; and an attempt ends with a
\* decoded body or the HTTP error of a status only after its HTTP call was entered.
C11_StepOrder ==
    [][\A t \in Tasks :
        /\ pc[t] \in {"idle", "backoff_sleep"} =>
                IF Starts(t)
                THEN /\ session' # 0 /\ session' \notin closed'
                     /\ tries'[t] = tries[t] + 1
                     /\ \/ pc'[t] = "wait_limiter" /\ level' = level
                        \/ pc'[t] = "in_flight" /\ level < max_rate /\ level' = level + 1
                ELSE pc'[t] = pc[t] /\ attempt'[t] = attempt[t]
        /\ pc[t] = "wait_limiter" =>
                \/ pc'[t] = "wait_limiter" /\ attempt'[t] = attempt[t]
                \/ /\ LimiterAcquire(t)
                   /\ level < max_rate /\ level' = level + 1
                   /\ pc'[t] \in {"in_flight", "idle"}
                   /\ tries'[t] \in {0, tries[t]}
        /\ pc[t] = "in_flight" => pc'[t] # "wait_limiter"
        /\ (attempt'[t] # attempt[t]
              /\ (attempt'[t].kind = "return" \/ attempt'[t].value = "ClientResponseError"))
                => pc[t] = "in_flight"]_vars

\* C11's case: with the bucket full, one task's retry attempt has acquired the
\* limiter and its request is in flight on an open session, while another task's
\* retry attempt has ensured the session and waits in acquire.
C11_Witness ==
    \E t \in Tasks : \E u \in Tasks \ {t} :
        /\ pc[t] = "in_flight"
        /\ tries[t] = 2
        /\ pc[u] = "wait_limiter"
        /\ tries[u] = 2
        /\ level = max_rate
        /\ session # 0
        /\ session \notin closed

====
